---- MODULE Spec2Model ----
(***************************************************************************)
(* Notebook synchronisation of ext-saladict against a WebDAV server:       *)
(*   src/background/sync-manager/index.ts   (orchestrator)                 *)
(*   sync-manager/services/webdav (part_001) (transport adapter)           *)
(*   sync-manager/helpers (part_000)         (config / meta / notebook)    *)
(* Every exposed operation is an async function; one action of the model   *)
(* is the code that runs when one of its awaits completes.                 *)
(***************************************************************************)
EXTENDS Integers, Sequences, FiniteSets, TLC

\* ---------------------------------------------------------------- bounds
MaxTs == 2          \* timestamps range over 0..MaxTs
MaxWords == 2       \* longest word list in a notebook or a remote file
MaxResp == 2        \* most <response> entries in a PROPFIND multi-status

\* ------------------------------------------------------- value universes
Undef == -1                     \* JavaScript undefined, for a number field
UndefStr == "<undefined>"       \* JavaScript undefined, for a string field
NullHeader == "<null>"          \* headers.get() of a header that is absent
NullWord == -2                  \* the JSON value null inside a words array

Timestamps == 0..MaxTs
\* a word is opaque but for its date: 0 is a word whose date is absent or
\* falsy, 1 a word that carries a date
WordValues == {NullWord, 0, 1}
WordLists == UNION {[1..n -> WordValues] : n \in 0..MaxWords}
\* words kept by the local notebook database all carry a date
LocalWordLists == UNION {[1..n -> {1}] : n \in 0..MaxWords}

ETagHeaders == {NullHeader, "e1"}
Statuses == {200, 304}

\* HTTP responses to GET Saladict/notebook.json.  body is "notjson" (json()
\* throws), "null" (the JSON text null) or "object"; isArray tells whether
\* the object's words member is an array.
Responses ==
  [status : Statuses, body : {"notjson", "null"}, timestamp : {Undef},
   isArray : {FALSE}, words : {<<>>}, etag : ETagHeaders]
  \cup
  [status : Statuses, body : {"object"}, timestamp : Timestamps \cup {Undef},
   isArray : {FALSE}, words : {<<>>}, etag : ETagHeaders]
  \cup
  [status : Statuses, body : {"object"}, timestamp : Timestamps \cup {Undef},
   isArray : {TRUE}, words : WordLists, etag : ETagHeaders]

NoResponse ==
  [status |-> 0, body |-> "notjson", timestamp |-> Undef, isArray |-> FALSE,
   words |-> <<>>, etag |-> NullHeader]

\* Meta, services/webdav: both members optional
EmptyMeta == [timestamp |-> Undef, etag |-> UndefStr]

\* SyncConfig as found in storage.sync: stored tells whether the syncConfig
\* key exists, entry whether it has a member for serviceID
Durations == {1}
SyncConfigs ==
  {[stored |-> FALSE, entry |-> FALSE, duration |-> 0],
   [stored |-> TRUE, entry |-> FALSE, duration |-> 0]}
  \cup [stored : {TRUE}, entry : {TRUE}, duration : Durations]

Procs == {"a", "b"}     \* invocations that may be in flight

VARIABLES
  syncConfig,   \* storage.sync 'syncConfig'
  syncMeta,     \* database sync meta text of serviceID: <<>> or <<text>>
  notebook,     \* database notebook area: the saved words
  op,           \* per invocation: the exposed operation it runs
  pc,           \* per invocation: the await it is suspended on
  meta,         \* per invocation: const meta of download / initServer
  res,          \* per invocation: the HTTP response of dlChanged's fetch
  response,     \* per invocation: what dlChanged returned
  text,         \* per invocation: the text serialized by syncServiceUpload
  doc,          \* per invocation: the multi-status document of initServer
  words0,       \* per invocation: the notebook as it was at the call
  outcome,      \* per invocation: how the returned promise settled
  calls,        \* per invocation: requests issued and store writes made
  ok,           \* per invocation: const ok of syncServiceUpload
  periodic,     \* the subscription made by startSyncServiceInterval
  fst,          \* a call of promise-more first(): inputs, count, result
  listenerMap,  \* browser-api listenerMap: cb -> msg -> generated callback
  listeners,    \* the callbacks added to chrome.runtime.onMessage
  pageId,       \* window.pageId
  regs,         \* the registrations callers asked for and did not remove
  delivered     \* the last message dispatched and the cbs it invoked

\* state outside the sync manager's exposed operations
others == <<periodic, fst, listenerMap, listeners, pageId, regs, delivered>>

vars == <<syncConfig, syncMeta, notebook, op, pc, meta, res, response, text,
          doc, words0, outcome, calls, ok, others>>

\* ------------------------------------------------------------ JavaScript
Truthy(n) == n # Undef /\ n # 0
\* relational operators: an undefined operand converts to NaN, never true
JsLe(a, b) == a # Undef /\ b # Undef /\ a <= b
JsGt(a, b) == a # Undef /\ b # Undef /\ a > b

\* JSON.stringify of a Meta object drops the members that are undefined
JSONstringify(m) ==
  [hasTimestamp |-> m.timestamp # Undef,
   timestamp |-> IF m.timestamp # Undef THEN m.timestamp ELSE 0,
   hasEtag |-> m.etag # UndefStr,
   etag |-> IF m.etag # UndefStr THEN m.etag ELSE ""]

\* JSON.parse of a Meta text: a member the text lacks reads as undefined
JSONparse(t) ==
  [timestamp |-> IF t.hasTimestamp THEN t.timestamp ELSE Undef,
   etag |-> IF t.hasEtag THEN t.etag ELSE UndefStr]

\* --------------------------------------------------------------- helpers
\* getSyncConfig(serviceID): undefined unless the key and the member exist
HasConfig(c) == c.stored /\ c.entry

\* getMeta(serviceID) followed by `meta || {}`
getMeta == IF syncMeta = <<>> THEN EmptyMeta ELSE JSONparse(syncMeta[1])

\* getMeta(serviceID) is defined (initServer tests `meta &&`)
MetaDefined == syncMeta # <<>>

Call(fn, ts, etag, words) ==
  [fn |-> fn, timestamp |-> ts, etag |-> etag, words |-> words]

NetCall(method) == Call(method, Undef, UndefStr, <<>>)

\* what dlChanged returns: undefined, a DlResponse, or a thrown TypeError
NoChange == [kind |-> "undefined", timestamp |-> Undef, words |-> <<>>,
             etag |-> ""]
Thrown == [kind |-> "throw", timestamp |-> Undef, words |-> <<>>,
           etag |-> ""]

\* json.words.some(w => !w.date): reading .date of null throws
SomeThrows(words) ==
  \E i \in 1..Len(words) :
    /\ words[i] = NullWord
    /\ \A j \in 1..(i - 1) : words[j] # NullWord /\ words[j] # 0
SomeNoDate(words) == \E i \in 1..Len(words) : words[i] = 0

\* dlChanged with the recency test turned round (`>=` for `<=`)
dlChanged_reversedTest(m, r) ==
  IF r.status = 304 THEN NoChange
  ELSE IF r.body = "notjson" THEN NoChange
  ELSE IF r.body = "null" THEN Thrown
  ELSE IF ~r.isArray THEN NoChange
  ELSE IF SomeThrows(r.words) THEN Thrown
  ELSE IF SomeNoDate(r.words) THEN NoChange
  ELSE IF Truthy(m.timestamp) /\ ~Truthy(r.timestamp) THEN NoChange
  ELSE IF Truthy(m.timestamp) /\ r.timestamp >= m.timestamp THEN NoChange
  ELSE [kind |-> "file", timestamp |-> r.timestamp, words |-> r.words,
        etag |-> IF r.etag = NullHeader THEN "" ELSE r.etag]

\* dlChanged without the `response.status === 304` return
dlChanged_no304(m, r) ==
  IF r.body = "notjson" THEN NoChange
  ELSE IF r.body = "null" THEN Thrown
  ELSE IF ~r.isArray THEN NoChange
  ELSE IF SomeThrows(r.words) THEN Thrown
  ELSE IF SomeNoDate(r.words) THEN NoChange
  ELSE IF Truthy(m.timestamp) /\ ~Truthy(r.timestamp) THEN NoChange
  ELSE IF Truthy(m.timestamp) /\ JsLe(r.timestamp, m.timestamp) THEN NoChange
  ELSE [kind |-> "file", timestamp |-> r.timestamp, words |-> r.words,
        etag |-> IF r.etag = NullHeader THEN "" ELSE r.etag]

\* dlChanged asking for a remote timestamp whatever Meta holds
dlChanged_alwaysNeedsTimestamp(m, r) ==
  IF r.status = 304 THEN NoChange
  ELSE IF r.body = "notjson" THEN NoChange
  ELSE IF r.body = "null" THEN Thrown
  ELSE IF ~r.isArray THEN NoChange
  ELSE IF SomeThrows(r.words) THEN Thrown
  ELSE IF SomeNoDate(r.words) THEN NoChange
  ELSE IF ~Truthy(r.timestamp) THEN NoChange
  ELSE IF Truthy(m.timestamp) /\ JsLe(r.timestamp, m.timestamp) THEN NoChange
  ELSE [kind |-> "file", timestamp |-> r.timestamp, words |-> r.words,
        etag |-> IF r.etag = NullHeader THEN "" ELSE r.etag]

\* dlChanged, after its fetch resolved with response r
dlChanged(m, r) ==
  IF r.status = 304 THEN NoChange
  ELSE IF r.body = "notjson" THEN NoChange
  ELSE IF r.body = "null" THEN Thrown
  ELSE IF ~r.isArray THEN NoChange
  ELSE IF SomeThrows(r.words) THEN Thrown
  ELSE IF SomeNoDate(r.words) THEN NoChange
  ELSE IF Truthy(m.timestamp) /\ ~Truthy(r.timestamp) THEN NoChange
  ELSE IF Truthy(m.timestamp) /\ JsLe(r.timestamp, m.timestamp) THEN NoChange
  ELSE [kind |-> "file", timestamp |-> r.timestamp, words |-> r.words,
        etag |-> IF r.etag = NullHeader THEN "" ELSE r.etag]

NoText == [timestamp |-> Undef, words |-> <<>>]

Idle(p) == pc[p] \in {"idle", "done"}

\* a new invocation starts with fresh locals
Fresh(p, o) ==
  /\ op' = [op EXCEPT ![p] = o]
  /\ meta' = [meta EXCEPT ![p] = EmptyMeta]
  /\ res' = [res EXCEPT ![p] = NoResponse]
  /\ response' = [response EXCEPT ![p] = NoChange]
  /\ text' = [text EXCEPT ![p] = NoText]
  /\ words0' = [words0 EXCEPT ![p] = notebook]
  /\ calls' = [calls EXCEPT ![p] = <<>>]
  /\ ok' = [ok EXCEPT ![p] = "none"]

Settle(p, how) ==
  /\ pc' = [pc EXCEPT ![p] = "done"]
  /\ outcome' = [outcome EXCEPT ![p] = how]

\* ------------------------------------------------------------------ Init
\* startSyncServiceInterval has not been called
NoPeriodic ==
  [state |-> "off", phase |-> "idle", proc |-> "none", duration |-> 0,
   timer |-> -1]

\* first() has not been called
NoFirst ==
  [called |-> FALSE, inputs |-> <<>>, log |-> <<>>, rejectCount |-> 0,
   result |-> [state |-> "pending", value |-> 0]]

\* the callback given to the listen functions, and the msg keys of
\* listenerMap ('' when no msg is given)
Cbs == {"f"}
MsgKeys == {"", "m1"}

\* no message has been dispatched
NoDelivery == [msg |-> "", pageId |-> "undefined", invoked |-> {}, seq |-> 0]

\* the state of promise-more and browser-api when the modules are loaded
InitOthers ==
  /\ periodic = NoPeriodic
  /\ fst = NoFirst
  /\ listenerMap = [k \in Cbs \X MsgKeys |-> "none"]
  /\ listeners = {}
  /\ pageId = "undefined"
  /\ regs = {}
  /\ delivered = NoDelivery

Init ==
  /\ syncConfig \in SyncConfigs
  /\ syncMeta = <<>>
  /\ notebook \in LocalWordLists
  /\ op = [p \in Procs |-> "none"]
  /\ pc = [p \in Procs |-> "idle"]
  /\ meta = [p \in Procs |-> EmptyMeta]
  /\ res = [p \in Procs |-> NoResponse]
  /\ response = [p \in Procs |-> NoChange]
  /\ text = [p \in Procs |-> NoText]
  /\ doc = [p \in Procs |-> <<>>]
  /\ words0 = [p \in Procs |-> <<>>]
  /\ outcome = [p \in Procs |-> "none"]
  /\ calls = [p \in Procs |-> <<>>]
  /\ ok = [p \in Procs |-> "none"]
  /\ InitOthers

\* --------------------------------------------------------------- actions
\* helpers.setSyncConfig: the user saves a config for the service
setSyncConfig ==
  /\ \E d \in Durations :
       syncConfig' = [stored |-> TRUE, entry |-> TRUE, duration |-> d]
  /\ syncConfig' # syncConfig
  /\ UNCHANGED <<syncMeta, notebook, op, pc, meta, res, response, text,
                 doc, words0, outcome, calls>>
  /\ UNCHANGED <<ok, others>>

\* syncServiceDownload up to the end of `await getSyncConfig`
syncServiceDownload(p) ==
  /\ Idle(p)
  /\ Fresh(p, "download")
  /\ doc' = [doc EXCEPT ![p] = <<>>]
  /\ IF HasConfig(syncConfig)
       THEN /\ pc' = [pc EXCEPT ![p] = "download_getMeta"]
            /\ outcome' = [outcome EXCEPT ![p] = "pending"]
       ELSE Settle(p, "resolved")
  /\ UNCHANGED <<syncConfig, syncMeta, notebook>>
  /\ UNCHANGED others

\* syncServiceUpload without the `if (!config) return`
syncServiceUpload_noConfigCheck(p) ==
  /\ Idle(p)
  /\ Fresh(p, "upload")
  /\ doc' = [doc EXCEPT ![p] = <<>>]
  /\ pc' = [pc EXCEPT ![p] = "download_getMeta"]
  /\ outcome' = [outcome EXCEPT ![p] = "pending"]
  /\ UNCHANGED <<syncConfig, syncMeta, notebook>>
  /\ UNCHANGED others

\* syncServiceUpload up to the end of `await getSyncConfig`
syncServiceUpload(p) ==
  /\ Idle(p)
  /\ Fresh(p, "upload")
  /\ doc' = [doc EXCEPT ![p] = <<>>]
  /\ IF HasConfig(syncConfig)
       THEN /\ pc' = [pc EXCEPT ![p] = "download_getMeta"]
            /\ outcome' = [outcome EXCEPT ![p] = "pending"]
       ELSE Settle(p, "resolved")
  /\ UNCHANGED <<syncConfig, syncMeta, notebook>>
  /\ UNCHANGED others

\* the caller's code after `await download(config)`
Returned(p) ==
  IF op[p] = "upload"
    THEN pc' = [pc EXCEPT ![p] = "upload_getNotebook"] /\ UNCHANGED outcome
    ELSE Settle(p, "resolved")

\* download: `const meta = await getMeta(serviceID)`
download_getMeta(p) ==
  /\ pc[p] = "download_getMeta"
  /\ meta' = [meta EXCEPT ![p] = getMeta]
  /\ pc' = [pc EXCEPT ![p] = "download_dlChanged"]
  /\ UNCHANGED <<syncConfig, syncMeta, notebook, op, res, response, text,
                 doc, words0, outcome, calls>>
  /\ UNCHANGED <<ok, others>>

\* download: `const response = await service.dlChanged(config, meta || {})`
\* either the fetch rejects, or the GET is answered with r and
\* `if (!response) { return }`
download_dlChanged(p) ==
  /\ pc[p] = "download_dlChanged"
  /\ calls' = [calls EXCEPT ![p] = Append(@, NetCall("GET"))]
  /\ \/ /\ Settle(p, "TypeError")
        /\ UNCHANGED <<res, response>>
     \/ \E r \in Responses :
          LET d == dlChanged(meta[p], r) IN
          /\ res' = [res EXCEPT ![p] = r]
          /\ response' = [response EXCEPT ![p] = d]
          /\ CASE d.kind = "file" ->
                    pc' = [pc EXCEPT ![p] = "download_setMeta"]
                    /\ UNCHANGED outcome
               [] d.kind = "throw" -> Settle(p, "TypeError")
               [] OTHER -> Returned(p)
  /\ UNCHANGED <<syncConfig, syncMeta, notebook, op, meta, text, doc, words0>>
  /\ UNCHANGED <<ok, others>>

\* download writing the timestamp it read from Meta, not the file's
download_setMeta_readTimestamp(p) ==
  /\ pc[p] = "download_setMeta"
  /\ LET m == [timestamp |-> meta[p].timestamp,
               etag |-> response[p].etag] IN
       /\ syncMeta' = <<JSONstringify(m)>>
       /\ calls' = [calls EXCEPT ![p] =
                      Append(@, Call("setMeta", m.timestamp, m.etag, <<>>))]
  /\ pc' = [pc EXCEPT ![p] = "download_setNotebook"]
  /\ UNCHANGED <<syncConfig, notebook, op, meta, res, response, text,
                 doc, words0, outcome>>
  /\ UNCHANGED <<ok, others>>

\* download: `await setMeta(serviceID, {timestamp: json.timestamp, etag})`
download_setMeta(p) ==
  /\ pc[p] = "download_setMeta"
  /\ LET m == [timestamp |-> response[p].timestamp,
               etag |-> response[p].etag] IN
       /\ syncMeta' = <<JSONstringify(m)>>
       /\ calls' = [calls EXCEPT ![p] =
                      Append(@, Call("setMeta", m.timestamp, m.etag, <<>>))]
  /\ pc' = [pc EXCEPT ![p] = "download_setNotebook"]
  /\ UNCHANGED <<syncConfig, notebook, op, meta, res, response, text,
                 doc, words0, outcome>>
  /\ UNCHANGED <<ok, others>>

\* download: `await setNotebook(json.words)`, then return to the caller
download_setNotebook(p) ==
  /\ pc[p] = "download_setNotebook"
  /\ notebook' = response[p].words
  /\ calls' = [calls EXCEPT ![p] =
                 Append(@, Call("setNotebook", Undef, UndefStr,
                                response[p].words))]
  /\ Returned(p)
  /\ UNCHANGED <<syncConfig, syncMeta, op, meta, res, response, text, doc, words0>>
  /\ UNCHANGED <<ok, others>>

\* syncServiceUpload serializing the words it had before download(config)
upload_getNotebook_staleWords(p) ==
  /\ pc[p] = "upload_getNotebook"
  /\ IF Len(words0[p]) <= 0
       THEN Settle(p, "resolved") /\ UNCHANGED text
       ELSE \E now \in 1..MaxTs :
              /\ text' = [text EXCEPT ![p] =
                            [timestamp |-> now, words |-> words0[p]]]
              /\ pc' = [pc EXCEPT ![p] = "upload_upload"]
              /\ UNCHANGED outcome
  /\ UNCHANGED <<syncConfig, syncMeta, notebook, op, meta, res, response,
                 doc, words0, calls>>
  /\ UNCHANGED <<ok, others>>

\* syncServiceUpload without the `words.length <= 0` return
upload_getNotebook_noEmptyCheck(p) ==
  /\ pc[p] = "upload_getNotebook"
  /\ \E now \in 1..MaxTs :
       /\ text' = [text EXCEPT ![p] =
                     [timestamp |-> now, words |-> notebook]]
       /\ pc' = [pc EXCEPT ![p] = "upload_upload"]
       /\ UNCHANGED outcome
  /\ UNCHANGED <<syncConfig, syncMeta, notebook, op, meta, res, response,
                 doc, words0, calls>>
  /\ UNCHANGED <<ok, others>>

\* syncServiceUpload: `const words = await getNotebook()`, the empty check,
\* `const timestamp = Date.now()` and JSON.stringify({ timestamp, words })
upload_getNotebook(p) ==
  /\ pc[p] = "upload_getNotebook"
  /\ IF Len(notebook) <= 0
       THEN Settle(p, "resolved") /\ UNCHANGED text
       ELSE \/ \E now \in 1..MaxTs :
                 /\ text' = [text EXCEPT ![p] =
                               [timestamp |-> now, words |-> notebook]]
                 /\ pc' = [pc EXCEPT ![p] = "upload_upload"]
                 /\ UNCHANGED outcome
            \/ \* JSON.stringify throws: caught, return
               Settle(p, "resolved") /\ UNCHANGED text
  /\ UNCHANGED <<syncConfig, syncMeta, notebook, op, meta, res, response,
                 doc, words0, calls>>
  /\ UNCHANGED <<ok, others>>

\* syncServiceUpload without the return that follows `if (!ok)`
upload_upload_noReturn(p) ==
  /\ pc[p] = "upload_upload"
  /\ calls' = [calls EXCEPT ![p] =
                 Append(@, Call("PUT", text[p].timestamp, UndefStr,
                                text[p].words))]
  /\ \/ Settle(p, "TypeError") /\ UNCHANGED ok
     \/ \E b \in BOOLEAN :
          /\ ok' = [ok EXCEPT ![p] = IF b THEN "true" ELSE "false"]
          /\ pc' = [pc EXCEPT ![p] = "upload_setMeta"]
          /\ UNCHANGED outcome
  /\ UNCHANGED <<syncConfig, syncMeta, notebook, op, meta, res, response,
                 text, doc, words0>>
  /\ UNCHANGED others

\* syncServiceUpload: `const ok = await service.upload(config, text)`
\* the PUT rejects, or answers with response.ok = ok
upload_upload(p) ==
  /\ pc[p] = "upload_upload"
  /\ calls' = [calls EXCEPT ![p] =
                 Append(@, Call("PUT", text[p].timestamp, UndefStr,
                                text[p].words))]
  /\ \/ Settle(p, "TypeError") /\ UNCHANGED ok
     \/ \E b \in BOOLEAN :
          /\ ok' = [ok EXCEPT ![p] = IF b THEN "true" ELSE "false"]
          /\ IF ~b THEN Settle(p, "resolved")
             ELSE pc' = [pc EXCEPT ![p] = "upload_setMeta"]
                  /\ UNCHANGED outcome
  /\ UNCHANGED <<syncConfig, syncMeta, notebook, op, meta, res, response,
                 text, doc, words0>>
  /\ UNCHANGED others

\* syncServiceUpload keeping the etag it read instead of clearing it
upload_setMeta_keepsEtag(p) ==
  /\ pc[p] = "upload_setMeta"
  /\ LET m == [timestamp |-> text[p].timestamp, etag |-> meta[p].etag] IN
       /\ syncMeta' = <<JSONstringify(m)>>
       /\ calls' = [calls EXCEPT ![p] =
                      Append(@, Call("setMeta", m.timestamp, m.etag, <<>>))]
  /\ Settle(p, "resolved")
  /\ UNCHANGED <<syncConfig, notebook, op, meta, res, response, text, doc,
                 words0>>
  /\ UNCHANGED <<ok, others>>

\* syncServiceUpload: `await setMeta(serviceID, { timestamp, etag: '' })`
upload_setMeta(p) ==
  /\ pc[p] = "upload_setMeta"
  /\ LET m == [timestamp |-> text[p].timestamp, etag |-> ""] IN
       /\ syncMeta' = <<JSONstringify(m)>>
       /\ calls' = [calls EXCEPT ![p] =
                      Append(@, Call("setMeta", m.timestamp, m.etag, <<>>))]
  /\ Settle(p, "resolved")
  /\ UNCHANGED <<syncConfig, notebook, op, meta, res, response, text, doc, words0>>
  /\ UNCHANGED <<ok, others>>

\* ------------------------------------------------------------ initServer
\* a <response> element: saladict tells whether its href ends with
\* '/Saladict/', collection whether it has a `resourcetype collection`
Elements == [saladict : BOOLEAN, collection : BOOLEAN]
Docs == UNION {[1..n -> Elements] : n \in 0..MaxResp}

\* the callback handed to Array.prototype.some
SomeCallback(el) ==
  IF el.saladict
    THEN IF el.collection THEN "true" ELSE "Promise.reject('dir')"
    ELSE "false"

\* `const dir = Array.from(...).some(callback)`: a promise object is truthy
Dir(d) == \E i \in 1..Len(d) : SomeCallback(d[i]) # "false"

\* initServer is called and issues its PROPFIND
initServer(p) ==
  /\ Idle(p)
  /\ Fresh(p, "init")
  /\ doc' = [doc EXCEPT ![p] = <<>>]
  /\ pc' = [pc EXCEPT ![p] = "initServer_propfind"]
  /\ outcome' = [outcome EXCEPT ![p] = "pending"]
  /\ UNCHANGED <<syncConfig, syncMeta, notebook>>
  /\ UNCHANGED others

\* initServer: `text = await fetch(config.url, ...).then(r => r.text())`,
\* the parse of the text and the scan of the document for Saladict/
initServer_propfind(p) ==
  /\ pc[p] = "initServer_propfind"
  /\ calls' = [calls EXCEPT ![p] = Append(@, NetCall("PROPFIND"))]
  /\ \/ \* the fetch or r.text() rejects
        Settle(p, "network") /\ UNCHANGED doc
     \/ \* parseFromString throws or yields no document
        Settle(p, "parse") /\ UNCHANGED doc
     \/ \E d \in Docs :
          /\ doc' = [doc EXCEPT ![p] = d]
          /\ pc' = [pc EXCEPT ![p] =
                      IF ~Dir(d) THEN "initServer_mkcol"
                      ELSE "initServer_getMeta"]
          /\ UNCHANGED outcome
  /\ UNCHANGED <<syncConfig, syncMeta, notebook, op, meta, res, response,
                 text, words0>>
  /\ UNCHANGED <<ok, others>>

\* initServer: `await fetch(config.url + 'Saladict', { method: 'MKCOL' })`
initServer_mkcol(p) ==
  /\ pc[p] = "initServer_mkcol"
  /\ calls' = [calls EXCEPT ![p] = Append(@, NetCall("MKCOL"))]
  /\ \/ Settle(p, "TypeError")
     \/ \E b \in BOOLEAN :
          Settle(p, IF ~b THEN "mkcol" ELSE "resolved")
  /\ UNCHANGED <<syncConfig, syncMeta, notebook, op, meta, res, response,
                 text, doc, words0>>
  /\ UNCHANGED <<ok, others>>

\* initServer: `const meta = await getMeta(serviceID)` and
\* `if (meta && meta.timestamp)`
initServer_getMeta(p) ==
  /\ pc[p] = "initServer_getMeta"
  /\ meta' = [meta EXCEPT ![p] = getMeta]
  /\ IF MetaDefined /\ Truthy(getMeta.timestamp)
       THEN pc' = [pc EXCEPT ![p] = "initServer_dlChanged"]
            /\ UNCHANGED outcome
       ELSE Settle(p, "resolved")
  /\ UNCHANGED <<syncConfig, syncMeta, notebook, op, res, response, text,
                 doc, words0, calls>>
  /\ UNCHANGED <<ok, others>>

\* initServer: `const file = await dlChanged(config, meta)` and
\* `if (file && meta.timestamp > file.json.timestamp)`
initServer_dlChanged(p) ==
  /\ pc[p] = "initServer_dlChanged"
  /\ calls' = [calls EXCEPT ![p] = Append(@, NetCall("GET"))]
  /\ \/ Settle(p, "TypeError") /\ UNCHANGED <<res, response>>
     \/ \E r \in Responses :
          LET file == dlChanged(meta[p], r) IN
          /\ res' = [res EXCEPT ![p] = r]
          /\ response' = [response EXCEPT ![p] = file]
          /\ CASE file.kind = "throw" -> Settle(p, "TypeError")
               [] file.kind = "file"
                  /\ JsGt(meta[p].timestamp, file.timestamp) ->
                    Settle(p, "exist")
               [] OTHER -> Settle(p, "resolved")
  /\ UNCHANGED <<syncConfig, syncMeta, notebook, op, meta, text, doc, words0>>
  /\ UNCHANGED <<ok, others>>

\* the invocations of Spec never overlap: one caller
Caller == {"a"}

Next ==
  \/ setSyncConfig
  \/ \E p \in Caller : syncServiceDownload(p)
  \/ \E p \in Caller : syncServiceUpload(p)
  \/ \E p \in Caller : download_getMeta(p)
  \/ \E p \in Caller : download_dlChanged(p)
  \/ \E p \in Caller : download_setMeta(p)
  \/ \E p \in Caller : download_setNotebook(p)
  \/ \E p \in Caller : upload_getNotebook(p)
  \/ \E p \in Caller : upload_upload(p)
  \/ \E p \in Caller : upload_setMeta(p)
  \/ \E p \in Caller : initServer(p)
  \/ \E p \in Caller : initServer_propfind(p)
  \/ \E p \in Caller : initServer_mkcol(p)
  \/ \E p \in Caller : initServer_getMeta(p)
  \/ \E p \in Caller : initServer_dlChanged(p)

Spec == Init /\ [][Next]_vars

\* ------------------------------------------- startSyncServiceInterval
MaxDuration == 2    \* config.duration ranges over 1..MaxDuration ticks

\* the configs that storage.sync may hold while the loop runs
PeriodicConfigs ==
  {[stored |-> FALSE, entry |-> FALSE, duration |-> 0],
   [stored |-> TRUE, entry |-> FALSE, duration |-> 0]}
  \cup [stored : {TRUE}, entry : {TRUE}, duration : 1..MaxDuration]

\* the answers the server gives to the GETs of the loop: 304, a body that
\* is the JSON text null, or a valid file
PeriodicResponses ==
  {r \in Responses :
     \/ r.status = 304 /\ r.body = "notjson" /\ r.etag = NullHeader
     \/ r.status = 200 /\ r.body = "null" /\ r.etag = NullHeader
     \/ /\ r.status = 200 /\ r.body = "object" /\ r.isArray
        /\ r.words = <<1>> /\ r.timestamp \in 1..MaxTs /\ r.etag = "e1"}

\* the invocation slot that the next download(config) of the loop runs in
FreeProc == IF Idle("a") THEN "a" ELSE "b"

\* `fromPromise(download(config))`: download is called and runs up to its
\* first await
StartCycle(p) ==
  /\ Idle(p)
  /\ Fresh(p, "periodic")
  /\ doc' = [doc EXCEPT ![p] = <<>>]
  /\ pc' = [pc EXCEPT ![p] = "download_getMeta"]
  /\ outcome' = [outcome EXCEPT ![p] = "pending"]

\* the project function of the outer switchMap, without its
\* `if (!configs || !configs[service.serviceID]) return empty()`
Project_noAbsentCheck(c) ==
  /\ StartCycle(FreeProc)
  /\ periodic' = [state |-> "on", phase |-> "download", proc |-> FreeProc,
                  duration |-> c.duration, timer |-> -1]

\* the outer switchMap on a config c: the inner observable it had is
\* unsubscribed (its timer is cleared, a download in flight goes on alone)
\* and the project function builds the next one
Project(c) ==
  IF ~HasConfig(c)
    THEN /\ periodic' = [NoPeriodic EXCEPT !.state = "on"]
         /\ UNCHANGED <<op, pc, meta, res, response, text, doc, words0,
                        outcome, calls, ok>>
    ELSE /\ StartCycle(FreeProc)
         /\ periodic' = [state |-> "on", phase |-> "download",
                         proc |-> FreeProc, duration |-> c.duration,
                         timer |-> -1]

\* the promise of the current download has settled and the loop has not
\* yet been told (its callback is the next microtask)
ReactionPending ==
  /\ periodic.phase = "download"
  /\ pc[periodic.proc] = "done"

\* startSyncServiceInterval: createSyncConfigStream().pipe(...).subscribe()
startSyncServiceInterval ==
  /\ periodic.state = "off"
  /\ periodic' = [periodic EXCEPT !.state = "get"]
  /\ UNCHANGED <<syncConfig, syncMeta, notebook, op, pc, meta, res, response,
                 text, doc, words0, outcome, calls, ok>>
  /\ UNCHANGED <<fst, listenerMap, listeners, pageId, regs, delivered>>

\* createSyncConfigStream: storage.sync.get('syncConfig') resolves, its
\* value is the first config of the stream
periodic_get ==
  /\ periodic.state = "get"
  /\ Project(syncConfig)
  /\ UNCHANGED <<syncConfig, syncMeta, notebook>>
  /\ UNCHANGED <<fst, listenerMap, listeners, pageId, regs, delivered>>

\* syncConfig changes in storage.sync; createStream('syncConfig') emits
\* change.newValue to the subscription, if it is alive
storageChange ==
  /\ ~ReactionPending
  /\ \E c \in PeriodicConfigs :
       /\ c # syncConfig
       /\ syncConfig' = c
       /\ IF periodic.state = "on"
            THEN Project(c)
            ELSE UNCHANGED <<periodic, op, pc, meta, res, response, text,
                             doc, words0, outcome, calls, ok>>
  /\ UNCHANGED <<syncMeta, notebook>>
  /\ UNCHANGED <<fst, listenerMap, listeners, pageId, regs, delivered>>

\* download: service.dlChanged answered by the server of the loop
periodic_dlChanged(p) ==
  /\ download_dlChanged(p)
  /\ res'[p] \in PeriodicResponses \cup {NoResponse}

\* fromPromise: the download of the current cycle resolved, delay() holds
\* its value for config.duration; or it rejected, the error passes delay,
\* repeat and switchMap and ends the subscription, which has no error
\* handler
periodic_complete ==
  /\ ReactionPending
  /\ IF outcome[periodic.proc] = "resolved"
       THEN periodic' = [periodic EXCEPT !.phase = "delay",
                                         !.timer = periodic.duration]
       ELSE periodic' = [NoPeriodic EXCEPT !.state = "error"]
  /\ UNCHANGED <<syncConfig, syncMeta, notebook, op, pc, meta, res, response,
                 text, doc, words0, outcome, calls, ok>>
  /\ UNCHANGED <<fst, listenerMap, listeners, pageId, regs, delivered>>

\* time passes while delay() holds the value
periodic_tick ==
  /\ periodic.phase = "delay"
  /\ periodic.timer > 0
  /\ periodic' = [periodic EXCEPT !.timer = @ - 1]
  /\ UNCHANGED <<syncConfig, syncMeta, notebook, op, pc, meta, res, response,
                 text, doc, words0, outcome, calls, ok>>
  /\ UNCHANGED <<fst, listenerMap, listeners, pageId, regs, delivered>>

\* repeat() resubscribing whenever time passes, not on completion
periodic_repeat_noWait ==
  /\ periodic.phase \in {"download", "delay"}
  /\ StartCycle(FreeProc)
  /\ periodic' = [periodic EXCEPT !.phase = "download", !.proc = FreeProc,
                                  !.timer = -1]
  /\ UNCHANGED <<syncConfig, syncMeta, notebook>>
  /\ UNCHANGED <<fst, listenerMap, listeners, pageId, regs, delivered>>

\* delay() lets the value and the completion through, repeat() subscribes
\* again: the next download(config) is called
periodic_repeat ==
  /\ periodic.phase = "delay"
  /\ periodic.timer = 0
  /\ StartCycle(FreeProc)
  /\ periodic' = [periodic EXCEPT !.phase = "download", !.proc = FreeProc,
                                  !.timer = -1]
  /\ UNCHANGED <<syncConfig, syncMeta, notebook>>
  /\ UNCHANGED <<fst, listenerMap, listeners, pageId, regs, delivered>>

NextPeriodic ==
  \/ startSyncServiceInterval
  \/ periodic_get
  \/ storageChange
  \/ \E p \in Procs : download_getMeta(p)
  \/ \E p \in Procs : periodic_dlChanged(p)
  \/ \E p \in Procs : download_setMeta(p)
  \/ \E p \in Procs : download_setNotebook(p)
  \/ periodic_complete
  \/ periodic_tick
  \/ periodic_repeat

SpecPeriodic == Init /\ [][NextPeriodic]_vars

\* ------------------------------------------------ promise-more first()
MaxInputs == 3      \* longest iterable given to first()

\* the values that inputs fulfil with
FirstValues == {1, 2}

\* an input of first(): a promise, pending or settled; a plain value is a
\* promise fulfilled with it
Inputs ==
  [state : {"fulfilled"}, value : FirstValues]
  \cup {[state |-> "pending", value |-> 0], [state |-> "rejected", value |-> 0]}

InputLists == UNION {[1..n -> Inputs] : n \in 0..MaxInputs}

\* the callbacks that first() attaches to input i, run when input i has
\* settled: `.then(resolve)`, or the catch callback with its
\* `if (++rejectCount === arr.length) reject(new Error('All rejected'))`;
\* a settled promise ignores resolve and reject
React(f, i) ==
  IF f.inputs[i].state = "fulfilled"
    THEN [f EXCEPT !.log = Append(@, i),
                   !.result = IF @.state = "pending"
                                THEN [state |-> "resolved",
                                      value |-> f.inputs[i].value]
                                ELSE @]
    ELSE [f EXCEPT !.log = Append(@, i),
                   !.rejectCount = @ + 1,
                   !.result = IF f.rejectCount + 1 = Len(f.inputs)
                                 /\ @.state = "pending"
                                THEN [state |-> "rejected", value |-> 0]
                                ELSE @]

\* the callbacks of the inputs that were settled when first() was called
\* run in the order of the array, from input i on
RECURSIVE ReactSettled(_, _)
ReactSettled(f, i) ==
  IF i > Len(f.inputs) THEN f
  ELSE IF f.inputs[i].state = "pending" THEN ReactSettled(f, i + 1)
  ELSE ReactSettled(React(f, i), i + 1)

\* first(iterable) is called
first ==
  /\ ~fst.called
  /\ \E arr \in InputLists :
       fst' = ReactSettled([NoFirst EXCEPT !.called = TRUE, !.inputs = arr], 1)
  /\ UNCHANGED <<syncConfig, syncMeta, notebook, op, pc, meta, res, response,
                 text, doc, words0, outcome, calls, ok>>
  /\ UNCHANGED <<periodic, listenerMap, listeners, pageId, regs, delivered>>

\* a pending input fulfils, and its callback runs
first_fulfil ==
  /\ fst.called
  /\ \E i \in 1..Len(fst.inputs), v \in FirstValues :
       /\ fst.inputs[i].state = "pending"
       /\ fst' = React([fst EXCEPT !.inputs[i] =
                          [state |-> "fulfilled", value |-> v]], i)
  /\ UNCHANGED <<syncConfig, syncMeta, notebook, op, pc, meta, res, response,
                 text, doc, words0, outcome, calls, ok>>
  /\ UNCHANGED <<periodic, listenerMap, listeners, pageId, regs, delivered>>

\* a pending input rejects, and its callback runs
first_reject ==
  /\ fst.called
  /\ \E i \in 1..Len(fst.inputs) :
       /\ fst.inputs[i].state = "pending"
       /\ fst' = React([fst EXCEPT !.inputs[i] =
                          [state |-> "rejected", value |-> 0]], i)
  /\ UNCHANGED <<syncConfig, syncMeta, notebook, op, pc, meta, res, response,
                 text, doc, words0, outcome, calls, ok>>
  /\ UNCHANGED <<periodic, listenerMap, listeners, pageId, regs, delivered>>

NextFirst ==
  \/ first
  \/ first_fulfil
  \/ first_reject

SpecFirst == Init /\ [][NextFirst]_vars

\* ------------------------------------------------- browser-api message
\* what the pages send: message.msg and message.__pageId__ ("undefined"
\* when the message has no __pageId__)
MsgNames == {"m1", "m2"}
PageIds == {"p1", "p2"}
Messages == [msg : MsgNames, pageId : PageIds \cup {"undefined"}]

\* the absent msg argument of messageStopListen
NoMsg == "<none>"

\* window.pageId: undefined until the answer to '__PAGE_ID__' has come
WindowPageId ==
  IF pageId \in {"undefined", "requested"} THEN "undefined" ELSE pageId

\* `listenerMap.get(cb)` is a Map: some callback was stored for cb
HasListeners(cb) == \E k \in MsgKeys : listenerMap[<<cb, k>>] # "none"

\* messageListen(msg, cb): the callback stored for (cb, msg) is used again
\* when there is one; else cb itself (no msg) or a wrapper testing
\* message.msg is stored; the callback is added to chrome.runtime.onMessage
messageListen(msg, cb) ==
  /\ listenerMap' =
       IF listenerMap[<<cb, msg>>] = "none"
         THEN [listenerMap EXCEPT ![<<cb, msg>>] =
                 IF msg # "" THEN "plain" ELSE "raw"]
         ELSE listenerMap
  /\ listeners' = listeners \cup {<<cb, msg>>}
  /\ regs' = regs \cup {<<cb, msg, "plain">>}
  /\ UNCHANGED <<pageId, delivered>>
  /\ UNCHANGED <<syncConfig, syncMeta, notebook, op, pc, meta, res, response,
                 text, doc, words0, outcome, calls, ok, periodic, fst>>

\* messageListenSelf(msg, cb): asks for the page id when window.pageId is
\* undefined; the callback stored for (cb, msg) is used again when there is
\* one; else a wrapper testing message.__pageId__ and message.msg is
\* stored; the callback is added to chrome.runtime.onMessage
messageListenSelf(msg, cb) ==
  /\ pageId' = IF pageId = "undefined" THEN "requested" ELSE pageId
  /\ listenerMap' =
       IF listenerMap[<<cb, msg>>] = "none"
         THEN [listenerMap EXCEPT ![<<cb, msg>>] = "self"]
         ELSE listenerMap
  /\ listeners' = listeners \cup {<<cb, msg>>}
  /\ regs' = regs \cup {<<cb, msg, "self">>}
  /\ UNCHANGED delivered
  /\ UNCHANGED <<syncConfig, syncMeta, notebook, op, pc, meta, res, response,
                 text, doc, words0, outcome, calls, ok, periodic, fst>>

\* messageStopListen(listener, msg): removes the callback stored for
\* (listener, msg), or every callback stored for listener when msg is not
\* a string, from chrome.runtime.onMessage; listenerMap keeps its entries
messageStopListen(listener, msg) ==
  /\ listeners' =
       IF HasListeners(listener)
         THEN IF msg # NoMsg
                THEN IF listenerMap[<<listener, msg>>] # "none"
                       THEN listeners \ {<<listener, msg>>}
                       ELSE listeners
                ELSE listeners \ {<<listener, k>> : k \in MsgKeys}
         ELSE listeners \ {<<listener, "">>}
  /\ regs' = {r \in regs : ~(r[1] = listener /\ (msg = NoMsg \/ r[2] = msg))}
  /\ UNCHANGED <<listenerMap, pageId, delivered>>
  /\ UNCHANGED <<syncConfig, syncMeta, notebook, op, pc, meta, res, response,
                 text, doc, words0, outcome, calls, ok, periodic, fst>>

\* the callback of `chrome.runtime.sendMessage({msg: '__PAGE_ID__'}, ...)`
pageId_response ==
  /\ pageId = "requested"
  /\ pageId' = "p1"
  /\ UNCHANGED <<listenerMap, listeners, regs, delivered>>
  /\ UNCHANGED <<syncConfig, syncMeta, notebook, op, pc, meta, res, response,
                 text, doc, words0, outcome, calls, ok, periodic, fst>>

\* does the callback stored for (cb, k) call cb on message m
Invokes(k, kind, m) ==
  CASE kind = "raw" -> TRUE
    [] kind = "plain" -> m.msg = k
    [] kind = "self" -> WindowPageId = m.pageId /\ (k = "" \/ m.msg = k)
    [] OTHER -> FALSE

\* chrome.runtime.onMessage fires with message m: every callback added to
\* it runs
onMessage ==
  /\ \E m \in Messages :
       delivered' =
         [msg |-> m.msg, pageId |-> m.pageId,
          invoked |-> {l[1] : l \in {x \in listeners :
                                       Invokes(x[2], listenerMap[x], m)}},
          seq |-> 1 - delivered.seq]
  /\ UNCHANGED <<listenerMap, listeners, pageId, regs>>
  /\ UNCHANGED <<syncConfig, syncMeta, notebook, op, pc, meta, res, response,
                 text, doc, words0, outcome, calls, ok, periodic, fst>>

NextMsg ==
  \/ \E msg \in MsgKeys, cb \in Cbs : messageListen(msg, cb)
  \/ \E msg \in MsgKeys, cb \in Cbs : messageListenSelf(msg, cb)
  \/ \E msg \in MsgKeys \cup {NoMsg}, cb \in Cbs : messageStopListen(cb, msg)
  \/ pageId_response
  \/ onMessage

SpecMsg == Init /\ [][NextMsg]_vars

\* --------------------------------------------- overlapping downloads
\* the answers of a server whose notebook.json goes through versions:
\* version n has timestamp n and n words; or 304
VersionResponses ==
  {r \in Responses :
     \/ r.status = 304 /\ r.body = "notjson" /\ r.etag = NullHeader
     \/ /\ r.status = 200 /\ r.body = "object" /\ r.isArray
        /\ r.timestamp \in 1..MaxTs
        /\ r.words = [i \in 1..r.timestamp |-> 1]
        /\ r.etag = "e1"}

\* syncServiceDownload is called, once for each of the two invocations
overlap_syncServiceDownload(p) ==
  /\ op[p] = "none"
  /\ syncServiceDownload(p)

\* download: service.dlChanged answered by the versioned server
overlap_dlChanged(p) ==
  /\ download_dlChanged(p)
  /\ res'[p] \in VersionResponses \cup {NoResponse}

NextOverlap ==
  \/ \E p \in Procs : overlap_syncServiceDownload(p)
  \/ \E p \in Procs : download_getMeta(p)
  \/ \E p \in Procs : overlap_dlChanged(p)
  \/ \E p \in Procs : download_setMeta(p)
  \/ \E p \in Procs : download_setNotebook(p)

SpecOverlap == Init /\ [][NextOverlap]_vars

\* ------------------------------------------------ failing store writes
\* download: `await setMeta(...)` rejects, Meta is not written and
\* download() rejects
download_setMeta_rejects(p) ==
  /\ pc[p] = "download_setMeta"
  /\ calls' = [calls EXCEPT ![p] =
                 Append(@, Call("setMeta", response[p].timestamp,
                                response[p].etag, <<>>))]
  /\ Settle(p, "StoreError")
  /\ UNCHANGED <<syncConfig, syncMeta, notebook, op, meta, res, response,
                 text, doc, words0>>
  /\ UNCHANGED <<ok, others>>

\* download: `await setNotebook(json.words)` rejects, the words are not
\* stored and download() rejects
download_setNotebook_rejects(p) ==
  /\ pc[p] = "download_setNotebook"
  /\ calls' = [calls EXCEPT ![p] =
                 Append(@, Call("setNotebook", Undef, UndefStr,
                                response[p].words))]
  /\ Settle(p, "StoreError")
  /\ UNCHANGED <<syncConfig, syncMeta, notebook, op, meta, res, response,
                 text, doc, words0>>
  /\ UNCHANGED <<ok, others>>

NextStoreFail ==
  \/ \E p \in Caller : syncServiceDownload(p)
  \/ \E p \in Caller : download_getMeta(p)
  \/ \E p \in Caller : overlap_dlChanged(p)
  \/ \E p \in Caller : download_setMeta(p)
  \/ \E p \in Caller : download_setNotebook(p)
  \/ \E p \in Caller : download_setMeta_rejects(p)
  \/ \E p \in Caller : download_setNotebook_rejects(p)

SpecStoreFail == Init /\ [][NextStoreFail]_vars

\* ================================================================ claims
\* the invocation has received an answer to the GET of its download cycle
Answered(p) == res[p].status # 0

\* indices of the store writes made by the download cycle of an invocation
\* (the ones that precede any PUT)
CycleWrites(p) ==
  {i \in 1..Len(calls[p]) :
     /\ calls[p][i].fn \in {"setMeta", "setNotebook"}
     /\ \A j \in 1..i : calls[p][j].fn # "PUT"}

Issued(p, method) == \E i \in 1..Len(calls[p]) : calls[p][i].fn = method

\* the download cycle of the invocation is over and nothing ran after it
CycleOver(p) ==
  \/ op[p] = "download" /\ pc[p] = "done"
  \/ op[p] = "upload" /\ pc[p] = "upload_getNotebook"

\* the invocation's download cycle changed neither store
CycleNoOp(p) ==
  /\ pc[p] \notin {"download_setMeta", "download_setNotebook"}
  /\ CycleWrites(p) = {}
  /\ CycleOver(p) => getMeta = meta[p] /\ notebook = words0[p]

\* the remote file is a NotebookFile: words is an array of dated words
ValidFile(r) ==
  /\ r.body = "object" /\ r.isArray
  /\ \A i \in 1..Len(r.words) : r.words[i] >= 1

HeaderEtag(r) == IF r.etag = NullHeader THEN "" ELSE r.etag

\* C1: for a stored Meta with timestamp t, a download cycle whose remote
\* file has timestamp <= t changes neither Meta nor the Notebook Store
C1_StaleFileIsNoOp ==
  \A p \in Procs :
    ( /\ op[p] \in {"download", "upload"}
      /\ Answered(p)
      /\ meta[p].timestamp # Undef
      /\ res[p].body = "object"
      /\ res[p].timestamp # Undef
      /\ res[p].timestamp <= meta[p].timestamp )
    => CycleNoOp(p)

\* C2: for a stored Meta with timestamp t, a download cycle that fetched a
\* NotebookFile with timestamp > t writes its words to the Notebook Store
\* and makes Meta exactly {timestamp: file.timestamp, etag: file.etag}
C2_NewerFileIsApplied ==
  \A p \in Procs :
    ( /\ op[p] \in {"download", "upload"}
      /\ CycleOver(p)
      /\ Answered(p)
      /\ res[p].status # 304
      /\ ValidFile(res[p])
      /\ meta[p].timestamp # Undef
      /\ res[p].timestamp # Undef
      /\ res[p].timestamp > meta[p].timestamp )
    => /\ syncMeta = <<JSONstringify([timestamp |-> res[p].timestamp,
                                      etag |-> HeaderEtag(res[p])])>>
       /\ getMeta = [timestamp |-> res[p].timestamp,
                     etag |-> HeaderEtag(res[p])]
       /\ notebook = res[p].words
       /\ calls[p] = <<NetCall("GET"),
                       Call("setMeta", res[p].timestamp, HeaderEtag(res[p]),
                            <<>>),
                       Call("setNotebook", Undef, UndefStr, res[p].words)>>

C2_Witness ==
  /\ op["a"] = "download" /\ pc["a"] = "done"
  /\ meta["a"].timestamp = 1
  /\ res["a"].status = 200 /\ res["a"].timestamp = 2
  /\ res["a"].etag = "e1" /\ res["a"].words = <<1>>
  /\ words0["a"] = <<1, 1>>
  /\ notebook = <<1>>
  /\ getMeta = [timestamp |-> 2, etag |-> "e1"]

\* C3: a download cycle answered with 304 changes neither Meta nor the
\* Notebook Store, whatever the stored Meta and the body are
C3_NotModifiedIsNoOp ==
  \A p \in Procs :
    (op[p] \in {"download", "upload"} /\ res[p].status = 304)
    => CycleNoOp(p)

C3_Witness ==
  /\ op["a"] = "download" /\ pc["a"] = "done"
  /\ res["a"].status = 304
  /\ ValidFile(res["a"]) /\ res["a"].words = <<1>>
  /\ res["a"].timestamp = 2
  /\ meta["a"].timestamp = 1
  /\ getMeta = meta["a"] /\ notebook = words0["a"] /\ notebook = <<>>

\* C4: a download cycle whose payload is not JSON, has a words member that
\* is not an array, or has a word without a date, changes neither store and
\* surfaces no error to its caller
Untrustworthy(r) ==
  \/ r.body = "notjson"
  \/ r.body = "object" /\ ~r.isArray
  \/ r.body = "object" /\ r.isArray
     /\ \E i \in 1..Len(r.words) : r.words[i] < 1

C4_UntrustworthyIsNoChange ==
  \A p \in Procs :
    (op[p] \in {"download", "upload"} /\ Answered(p)
     /\ Untrustworthy(res[p]))
    => /\ CycleNoOp(p)
       /\ response[p].kind # "throw"
       /\ op[p] = "download" /\ pc[p] = "done" => outcome[p] = "resolved"

\* C5 as stated: an uploadNow() called with an empty notebook issues no PUT
C5_EmptyAtCallNoPut ==
  \A p \in Procs :
    (op[p] = "upload" /\ words0[p] = <<>>) => ~Issued(p, "PUT")

\* C5 amended: an uploadNow() that finds the notebook empty after its
\* download cycle issues no PUT; every PUT carries a non-empty word list
C5_EmptyAfterCycleNoPut ==
  \A p \in Procs :
    op[p] = "upload" =>
      /\ (pc[p] \in {"upload_upload", "upload_setMeta", "done"}
          /\ notebook = <<>>) => ~Issued(p, "PUT")
      /\ \A i \in 1..Len(calls[p]) :
           calls[p][i].fn = "PUT" =>
             calls[p][i].words # <<>> /\ calls[p][i].words = notebook

C5_Witness ==
  /\ op["a"] = "upload" /\ pc["a"] = "done"
  /\ words0["a"] = <<1>>
  /\ notebook = <<>>
  /\ Issued("a", "GET") /\ Issued("a", "setNotebook")
  /\ ~Issued("a", "PUT")

\* C6: when the PUT of uploadNow() returned ok, the step that follows leaves
\* Meta exactly {timestamp: T, etag: ''}, T the timestamp of the uploaded
\* text, and uploadNow() is over
C6_UploadResetsEtag ==
  [][\A p \in Procs :
       (pc[p] = "upload_setMeta" /\ pc'[p] # pc[p])
       => /\ syncMeta' = <<[hasTimestamp |-> TRUE,
                            timestamp |-> text[p].timestamp,
                            hasEtag |-> TRUE, etag |-> ""]>>
          /\ calls[p][Len(calls[p])].fn = "PUT"
          /\ calls[p][Len(calls[p])].timestamp = text[p].timestamp
          /\ pc'[p] = "done" /\ outcome'[p] = "resolved"]_vars

C6_Witness ==
  /\ op["a"] = "upload" /\ pc["a"] = "done"
  /\ meta["a"] = [timestamp |-> 1, etag |-> "e1"]
  /\ CycleWrites("a") = {}
  /\ Issued("a", "PUT")
  /\ text["a"].timestamp = 2
  /\ getMeta = [timestamp |-> 2, etag |-> ""]

\* C7: without a stored config for the service, uploadNow() and
\* downloadNow() return at once: no request, Meta and Notebook unchanged
C7_NoConfigNoOp ==
  [][\A p \in Procs :
       ((syncServiceUpload(p) \/ syncServiceDownload(p))
        /\ ~HasConfig(syncConfig))
       => /\ pc'[p] = "done" /\ outcome'[p] = "resolved"
          /\ calls'[p] = <<>>
          /\ syncMeta' = syncMeta /\ notebook' = notebook]_vars

C7_Witness ==
  /\ op["a"] = "upload" /\ pc["a"] = "done" /\ outcome["a"] = "resolved"
  /\ ~HasConfig(syncConfig)
  /\ Len(notebook) = MaxWords
  /\ calls["a"] = <<>>

\* C8: initialize() whose PROPFIND answer lists Saladict/ as a resource that
\* is not a collection rejects with "dir" and issues no MKCOL
C8_NonCollectionRejectsDir ==
  \A p \in Procs :
    (op[p] = "init" /\ pc[p] = "done"
     /\ \E i \in 1..Len(doc[p]) :
          doc[p][i].saladict /\ ~doc[p][i].collection)
    => outcome[p] = "dir" /\ ~Issued(p, "MKCOL")

\* C9: initialize() whose PROPFIND answer has no Saladict/ entry issues
\* exactly one MKCOL; it resolves if that call succeeds and rejects with
\* "mkcol" if it fails
C9_MissingDirOneMkcol ==
  \A p \in Procs :
    (op[p] = "init" /\ pc[p] = "done"
     /\ outcome[p] \notin {"network", "parse"}
     /\ \A i \in 1..Len(doc[p]) : ~doc[p][i].saladict)
    => /\ Cardinality({i \in 1..Len(calls[p]) :
                         calls[p][i].fn = "MKCOL"}) = 1
       /\ outcome[p] \in {"resolved", "mkcol"}

\* C10: initialize() that finds Saladict/ as a collection while Meta holds a
\* timestamp t downloads conditionally and rejects with "exist" if the
\* remote file's timestamp is older than t
C10_StaleRemoteRejectsExist ==
  \A p \in Procs :
    ( /\ op[p] = "init" /\ pc[p] = "done"
      /\ \E i \in 1..Len(doc[p]) : doc[p][i].saladict
      /\ \A i \in 1..Len(doc[p]) :
           doc[p][i].saladict => doc[p][i].collection
      /\ meta[p].timestamp # Undef
      /\ Answered(p) /\ res[p].status # 304
      /\ ValidFile(res[p])
      /\ res[p].timestamp # Undef
      /\ res[p].timestamp < meta[p].timestamp )
    => outcome[p] = "exist"

\* C11: every rejection of initialize() carries one of the five reason
\* codes "network", "parse", "mkcol", "dir", "exist"
C11_RejectionsCarryReasonCode ==
  \A p \in Procs :
    (op[p] = "init" /\ pc[p] = "done" /\ outcome[p] # "resolved")
    => outcome[p] \in {"network", "parse", "mkcol", "dir", "exist"}

\* C16: uploadNow() issues its PUT only after its download cycle is over,
\* writes included, and uploads the notebook as it is after that cycle: the
\* words of a newer remote file that the cycle applied
C16_PutAfterCycle ==
  \A p \in Procs :
    /\ pc[p] \in {"download_getMeta", "download_dlChanged",
                  "download_setMeta", "download_setNotebook",
                  "upload_getNotebook"} => ~Issued(p, "PUT")
    /\ \A i \in 1..Len(calls[p]) :
         calls[p][i].fn = "PUT" =>
           /\ \E j \in 1..(i - 1) : calls[p][j].fn = "GET"
           /\ calls[p][i].words = notebook
           /\ response[p].kind = "file" =>
                /\ \E j \in 1..(i - 1) :
                     calls[p][j] = Call("setMeta", response[p].timestamp,
                                        response[p].etag, <<>>)
                /\ \E j \in 1..(i - 1) :
                     calls[p][j] = Call("setNotebook", Undef, UndefStr,
                                        response[p].words)
                /\ calls[p][i].words = response[p].words
           /\ response[p].kind # "file" => calls[p][i].words = words0[p]

C16_Witness ==
  /\ op["a"] = "upload" /\ pc["a"] = "done"
  /\ response["a"].kind = "file" /\ response["a"].words = <<1>>
  /\ words0["a"] = <<1, 1>>
  /\ \E i \in 1..Len(calls["a"]) :
       calls["a"][i].fn = "PUT" /\ calls["a"][i].words = <<1>>

\* C18: when the PUT of uploadNow() answers non-ok, uploadNow() returns
\* normally and writes no Meta: Meta is what the download cycle left
C18_FailedUploadKeepsMeta ==
  \A p \in Procs :
    (op[p] = "upload" /\ ok[p] = "false")
    => /\ pc[p] = "done" /\ outcome[p] = "resolved"
       /\ calls[p][Len(calls[p])].fn = "PUT"
       /\ getMeta = IF response[p].kind = "file"
                      THEN [timestamp |-> response[p].timestamp,
                            etag |-> response[p].etag]
                      ELSE meta[p]

C18_Witness ==
  /\ op["a"] = "upload" /\ pc["a"] = "done" /\ ok["a"] = "false"
  /\ outcome["a"] = "resolved"
  /\ response["a"].kind = "file"
  /\ meta["a"] = [timestamp |-> 1, etag |-> ""]
  /\ getMeta = [timestamp |-> 2, etag |-> "e1"]
  /\ text["a"].timestamp = 1

\* C19: when the stored Meta is absent or has no timestamp, a download
\* cycle answered with a valid file and a status other than 304 applies the
\* file whatever its timestamp; Meta becomes {timestamp: file.timestamp,
\* etag: the ETag header or ''}
C19_NoLocalTimestampApplies ==
  \A p \in Procs :
    ( /\ op[p] \in {"download", "upload"}
      /\ CycleOver(p)
      /\ Answered(p)
      /\ res[p].status # 304
      /\ ValidFile(res[p])
      /\ meta[p].timestamp = Undef )
    => /\ response[p].kind = "file"
       /\ getMeta = [timestamp |-> res[p].timestamp,
                     etag |-> HeaderEtag(res[p])]
       /\ notebook = res[p].words

C19_Witness ==
  /\ op["a"] = "download" /\ pc["a"] = "done"
  /\ meta["a"] = EmptyMeta
  /\ res["a"].status = 200 /\ res["a"].timestamp = 0
  /\ res["a"].etag = NullHeader /\ res["a"].words = <<1>>
  /\ words0["a"] = <<>>
  /\ getMeta = [timestamp |-> 0, etag |-> ""]
  /\ notebook = <<1>>

\* a download(config) of the periodic loop is called in this step
PeriodicStart(p) ==
  /\ pc[p] \in {"idle", "done"}
  /\ op'[p] = "periodic"
  /\ pc'[p] = "download_getMeta"

\* the subscription made by runPeriodic() has received its first config
Subscribed == periodic.state \in {"on", "error"}

\* C12: in runPeriodic(), every config notification carrying a present
\* config cancels the pending wait and starts a download cycle at once
C12_PresentConfigStartsCycle ==
  [][(Subscribed /\ syncConfig' # syncConfig /\ HasConfig(syncConfig'))
     => /\ \E p \in Procs : PeriodicStart(p)
        /\ periodic'.phase = "download"
        /\ periodic'.timer = -1
        /\ periodic'.duration = syncConfig'.duration]_vars

\* C13: while the latest config is absent the periodic loop starts no
\* download, and a change from present to absent cancels the pending
\* repetition: no timer runs and no cycle of the loop is awaited
C13_AbsentConfigNoCycle ==
  [][~HasConfig(syncConfig')
     => /\ \A p \in Procs : ~PeriodicStart(p)
        /\ periodic'.phase = "idle"
        /\ periodic'.timer = -1]_vars

C13_Witness ==
  /\ periodic.state = "on"
  /\ ~HasConfig(syncConfig)
  /\ periodic.phase = "idle"
  /\ op["a"] = "periodic" /\ pc["a"] = "done" /\ outcome["a"] = "resolved"
  /\ op["b"] = "none"

\* C14: a transport failure in one periodic cycle ends only that cycle:
\* while the config is present, the loop waits for the duration and starts
\* the next cycle
C14_FailedCycleIsFollowed ==
  \A p \in Procs :
    ( /\ Subscribed
      /\ HasConfig(syncConfig)
      /\ periodic.proc \in {p, "none"}
      /\ op[p] = "periodic" /\ pc[p] = "done" /\ outcome[p] = "TypeError"
      /\ ~Answered(p)
      /\ \A q \in Procs \ {p} : op[q] = "none" )
    => \/ ReactionPending
       \/ periodic.state = "on" /\ periodic.phase = "delay"

\* C17: under an unchanged config the next periodic cycle starts only
\* after the previous one has completed and the duration has elapsed since;
\* while the loop waits, no cycle of it is in flight
C17_NextCycleAfterDelay ==
  [][/\ \A p \in Procs :
          (PeriodicStart(p) /\ syncConfig' = syncConfig
             /\ periodic.state = "on")
          => /\ periodic.phase = "delay"
             /\ periodic.timer = 0
             /\ pc[periodic.proc] = "done"
             /\ outcome[periodic.proc] = "resolved"
     /\ periodic'.phase = "delay"
          => /\ pc'[periodic'.proc] = "done"
             /\ periodic'.timer \in 0..periodic'.duration
             /\ periodic.phase = "download"
                  => periodic'.timer = periodic'.duration
             /\ (periodic.phase = "delay" /\ periodic' # periodic)
                  => periodic'.timer = periodic.timer - 1]_vars

C17_Witness ==
  /\ periodic.state = "on" /\ periodic.phase = "download"
  /\ periodic.duration = 2
  /\ periodic.proc = "a" /\ pc["a"] = "download_getMeta"
  /\ syncMeta # <<>>
  /\ op["b"] = "none"

\* the inputs of first() that have fulfilled, in the order they did
Fulfilled == SelectSeq(fst.log, LAMBDA i : fst.inputs[i].state = "fulfilled")

\* C15: first(inputs) resolves with the value of the input that fulfils
\* earliest, whatever rejected before it or settles after it, and it
\* rejects with 'All rejected' exactly when all inputs have failed
C15_FirstFulfilledOrAllRejected ==
  fst.called =>
    /\ Fulfilled # <<>> =>
         fst.result = [state |-> "resolved",
                       value |-> fst.inputs[Fulfilled[1]].value]
    /\ fst.result.state = "rejected"
         <=> \A i \in 1..Len(fst.inputs) : fst.inputs[i].state = "rejected"
    /\ fst.result.state = "resolved" => Fulfilled # <<>>

\* C20: a callback whose registrations in force were all made with
\* message.self.listen is invoked only for messages whose __pageId__ equals
\* this page's pageId and whose msg is the msg of one of them (any msg when
\* none was given), whatever message.listen, message.self.listen and off
\* calls came before
C20_SelfListenerOwnPageOnly ==
  [][delivered' # delivered =>
       \A cb \in delivered'.invoked :
         (\A r \in regs : r[1] = cb => r[3] = "self")
         => \E r \in regs :
              /\ r[1] = cb
              /\ delivered'.pageId = WindowPageId
              /\ r[2] = "" \/ delivered'.msg = r[2]]_vars

\* C21: in non-overlapping download cycles, once Meta holds a timestamp it
\* never decreases: a cycle that writes Meta replaces the timestamp with a
\* strictly greater one
C21_MetaTimestampGrows ==
  [][\A p \in Procs :
       ( /\ pc[p] = "download_setMeta"
         /\ pc'[p] = "download_setNotebook"
         /\ getMeta.timestamp # Undef )
       => JsGt(getMeta'.timestamp, getMeta.timestamp)]_vars

\* both download cycles have completed
AllDone == \A p \in Procs : op[p] = "download" /\ pc[p] = "done"

\* the cycle of p accepted the remote file it fetched
Accepted(p) == response[p].kind = "file"

\* C22: for any interleaving of overlapping download cycles, once all of
\* them have completed, Meta.timestamp and the notebook words come from the
\* same remote file version, the newest one any of the cycles fetched
C22_OverlapSameNewestVersion ==
  (AllDone /\ \E p \in Procs : Accepted(p))
  => \E p \in Procs :
       /\ Accepted(p)
       /\ getMeta.timestamp = response[p].timestamp
       /\ notebook = response[p].words
       /\ \A q \in Procs :
            Accepted(q) => response[q].timestamp <= response[p].timestamp

\* C22 as amended: once all overlapping download cycles have completed,
\* Meta is the {timestamp, etag} of a file that one of the cycles accepted
\* and the notebook holds the words of a file that one of the cycles
\* accepted, not always the same file nor the newest; when no cycle
\* accepted a file, no Meta was written
C22_OverlapLastWriters ==
  AllDone =>
    IF \E p \in Procs : Accepted(p)
      THEN /\ \E p \in Procs :
                /\ Accepted(p)
                /\ getMeta = [timestamp |-> response[p].timestamp,
                              etag |-> response[p].etag]
           /\ \E q \in Procs : Accepted(q) /\ notebook = response[q].words
      ELSE syncMeta = <<>> /\ \A p \in Procs : notebook = words0[p]

C22_Witness ==
  /\ AllDone
  /\ Accepted("a") /\ Accepted("b")
  /\ response["a"].timestamp = 1 /\ response["b"].timestamp = 2
  /\ getMeta = [timestamp |-> 1, etag |-> "e1"]
  /\ notebook = <<1, 1>>

\* C23: a download cycle that accepted a newer remote file and fails while
\* writing the Notebook Store leaves Meta at its previous value: Meta never
\* records a file whose words were not stored
C23_FailedStoreKeepsMeta ==
  \A p \in Procs :
    ( /\ op[p] = "download" /\ pc[p] = "done"
      /\ outcome[p] = "StoreError"
      /\ Issued(p, "setNotebook") )
    => getMeta = meta[p]
====
